---- MODULE Spec2Model ----
(***************************************************************************)
(* Model of mandelbrot_set/src/main.rs: the argument parsers, the          *)
(* pixel-to-point mapper, the escape-time loop, the band renderer and the  *)
(* fork/join dispatch of main.                                             *)
(*                                                                         *)
(* f64 is modelled as a binary floating-point format of the same shape     *)
(* (round to nearest, ties to even, gradual underflow, overflow to         *)
(* infinity, NaN) with Precision significand bits instead of 53.  A finite *)
(* value is an integer count of units of 2^-FracBits.  The sign of zero is *)
(* not kept: no operation of the program observes it.                      *)
(***************************************************************************)
EXTENDS Integers, Naturals, Sequences, FiniteSets, TLC

-----------------------------------------------------------------------------
(* Bounds of the model *)

Precision == 3          \* significand bits of the modelled float format
FracBits == 2           \* the smallest positive float is 2^-FracBits
MaxExp == 4             \* the largest finite float is (2^Precision - 1) * 2^(MaxExp - FracBits)

-----------------------------------------------------------------------------
(* Floating point *)

RECURSIVE Pow2(_)
Pow2(n) == IF n = 0 THEN 1 ELSE 2 * Pow2(n - 1)

Abs(n) == IF n < 0 THEN -n ELSE n

Sign(n) == IF n < 0 THEN -1 ELSE 1

One == Pow2(FracBits)

MaxFinite == (Pow2(Precision) - 1) * Pow2(MaxExp)

Fin(n) == [k |-> "fin", v |-> n]

Inf(sgn) == [k |-> "inf", v |-> sgn]

NaN == [k |-> "nan", v |-> 0]

\* exponent of the binade of a/den: the least e with a/den < 2^(Precision+e)
RECURSIVE BinadeOf(_, _, _)
BinadeOf(a, den, e) ==
    IF a < den * Pow2(Precision + e) THEN e ELSE BinadeOf(a, den, e + 1)

\* the float nearest to the rational num/den units (den > 0), ties to even
RoundNearestEven(num, den) ==
    LET a == Abs(num)
        e == BinadeOf(a, den, 0)
        scale == den * Pow2(e)
        m == a \div scale
        r == a % scale
        up == 2 * r > scale \/ (2 * r = scale /\ m % 2 = 1)
        mag == (IF up THEN m + 1 ELSE m) * Pow2(e)
    IN  IF mag > MaxFinite THEN Inf(Sign(num)) ELSE Fin(Sign(num) * mag)

FNeg(a) ==
    IF a.k = "nan" THEN NaN ELSE [k |-> a.k, v |-> -a.v]

FAdd(a, b) ==
    CASE a.k = "nan" \/ b.k = "nan" -> NaN
      [] a.k = "inf" /\ b.k = "inf" -> IF a.v = b.v THEN a ELSE NaN
      [] a.k = "inf" -> a
      [] b.k = "inf" -> b
      [] OTHER -> RoundNearestEven(a.v + b.v, 1)

FSub(a, b) == FAdd(a, FNeg(b))

FMul(a, b) ==
    CASE a.k = "nan" \/ b.k = "nan" -> NaN
      [] a.k = "inf" \/ b.k = "inf" ->
            IF a.v = 0 \/ b.v = 0 THEN NaN ELSE Inf(Sign(a.v) * Sign(b.v))
      [] OTHER -> RoundNearestEven(a.v * b.v, One)

FDiv(a, b) ==
    CASE a.k = "nan" \/ b.k = "nan" -> NaN
      [] a.k = "inf" /\ b.k = "inf" -> NaN
      [] a.k = "inf" -> Inf(Sign(a.v) * Sign(b.v))
      [] b.k = "inf" -> Fin(0)
      [] b.v = 0 -> IF a.v = 0 THEN NaN ELSE Inf(Sign(a.v))
      [] OTHER -> RoundNearestEven(Sign(b.v) * a.v * One, Abs(b.v))

\* a > b of f64: false when either side is NaN
FGt(a, b) ==
    CASE a.k = "nan" \/ b.k = "nan" -> FALSE
      [] a.k = "inf" /\ b.k = "inf" -> a.v > b.v
      [] a.k = "inf" -> a.v > 0
      [] b.k = "inf" -> b.v < 0
      [] OTHER -> a.v > b.v

\* a == b of f64: NaN equals nothing
FEq(a, b) == a.k # "nan" /\ b.k # "nan" /\ a = b

\* `n as f64`
UsizeAsF64(n) == RoundNearestEven(n * One, 1)

\* the finite floats, the infinities and NaN
IsFloat(n) == RoundNearestEven(n, 1) = Fin(n)

FiniteFloats == {Fin(n) : n \in {x \in -MaxFinite..MaxFinite : IsFloat(x)}}

Floats == FiniteFloats \cup {Inf(1), Inf(-1), NaN}

Complex(re, im) == [re |-> re, im |-> im]

CEq(a, b) == FEq(a.re, b.re) /\ FEq(a.im, b.im)

\* Complex<f64> addition and multiplication of the num crate
CAdd(a, b) == Complex(FAdd(a.re, b.re), FAdd(a.im, b.im))

CMul(a, b) ==
    Complex(FSub(FMul(a.re, b.re), FMul(a.im, b.im)),
            FAdd(FMul(a.re, b.im), FMul(a.im, b.re)))

\* Complex::norm_sqr
NormSqr(zz) == FAdd(FMul(zz.re, zz.re), FMul(zz.im, zz.im))

-----------------------------------------------------------------------------
(* Option<T> *)

None == <<"None">>

Some(x) == <<"Some", x>>

-----------------------------------------------------------------------------
(* pixel_to_point *)

\* faulty variant: the imaginary part grows with the row
PixelToPointUpward(bnds, pix, ul, lr) ==
    LET complex_width == FSub(lr.re, ul.re)
        complex_height == FSub(ul.im, lr.im)
    IN  Complex(
            FAdd(ul.re, FMul(FDiv(UsizeAsF64(pix[1]), UsizeAsF64(bnds[1])), complex_width)),
            FAdd(ul.im, FMul(FDiv(UsizeAsF64(pix[2]), UsizeAsF64(bnds[2])), complex_height)))

\* faulty variant: each pixel coordinate is divided by the bound of the other axis
PixelToPointTransposed(bnds, pix, ul, lr) ==
    LET complex_width == FSub(lr.re, ul.re)
        complex_height == FSub(ul.im, lr.im)
    IN  Complex(
            FAdd(ul.re, FMul(FDiv(UsizeAsF64(pix[1]), UsizeAsF64(bnds[2])), complex_width)),
            FSub(ul.im, FMul(FDiv(UsizeAsF64(pix[2]), UsizeAsF64(bnds[1])), complex_height)))

PixelToPoint(bnds, pix, ul, lr) ==
    LET complex_width == FSub(lr.re, ul.re)
        complex_height == FSub(ul.im, lr.im)
    IN  Complex(
            FAdd(ul.re, FMul(FDiv(UsizeAsF64(pix[1]), UsizeAsF64(bnds[1])), complex_width)),
            FSub(ul.im, FMul(FDiv(UsizeAsF64(pix[2]), UsizeAsF64(bnds[2])), complex_height)))

-----------------------------------------------------------------------------
(* belongs_to_mandelbrot_set *)

ZeroZ == Complex(Fin(0), Fin(0))

\* the escape threshold 4.0
EscapeNormSqr == Fin(4 * One)

\* z = z * z + c
ZNext(zz, cc) == CAdd(CMul(zz, zz), cc)

\* faulty variant: >= in place of >
EscapedOrOnCircle(zz) == ~FGt(EscapeNormSqr, NormSqr(zz)) /\ NormSqr(zz).k # "nan"

\* z.norm_sqr() > 4.0
Escaped(zz) == FGt(NormSqr(zz), EscapeNormSqr)

RECURSIVE EscapeLoop(_, _, _, _)
EscapeLoop(zz, cc, ii, lim) ==
    IF ii >= lim THEN None
    ELSE LET z1 == ZNext(zz, cc)
         IN  IF Escaped(z1) THEN Some(ii) ELSE EscapeLoop(z1, cc, ii + 1, lim)

BelongsToMandelbrotSet(cc, lim) == EscapeLoop(ZeroZ, cc, 0, lim)

-----------------------------------------------------------------------------
(* &str: a sequence of bytes holding whole UTF-8 characters *)

MaxStrChars == 3        \* characters of an input text
MaxSepChars == 2        \* characters of a separator

Digits == {"0", "1", "2"}

\* the two bytes of a two-byte character (0xC3 0xA9)
LeadByte == "C3"

ContByte == "A9"

Chars == {<<d>> : d \in Digits} \cup {<<"x">>, <<",">>, <<LeadByte, ContByte>>}

RECURSIVE StrsOf(_)
StrsOf(n) ==
    IF n = 0 THEN {<<>>}
    ELSE LET shorter == StrsOf(n - 1)
         IN  shorter \cup {t \o ch : t \in shorter, ch \in Chars}

\* str::is_char_boundary
IsCharBoundary(str, idx) ==
    \/ idx = 0
    \/ idx = Len(str)
    \/ idx < Len(str) /\ str[idx + 1] # ContByte

\* whether &str[from..to] is a slice; indexing panics otherwise
SliceOk(str, from, to) ==
    /\ from <= to
    /\ to <= Len(str)
    /\ IsCharBoundary(str, from)
    /\ IsCharBoundary(str, to)

\* &str[from..to], bytes from (0-based) up to to, exclusive
Slice(str, from, to) == SubSeq(str, from + 1, to)

MatchesAt(str, pat, idx) ==
    /\ idx + Len(pat) <= Len(str)
    /\ SubSeq(str, idx + 1, idx + Len(pat)) = pat

\* str::find: the byte index of the first match
Find(str, pat) ==
    IF \E idx \in 0..Len(str) : MatchesAt(str, pat, idx)
    THEN Some(CHOOSE idx \in 0..Len(str) :
                /\ MatchesAt(str, pat, idx)
                /\ \A j \in 0..(idx - 1) : ~MatchesAt(str, pat, j))
    ELSE None

DigitValue(d) == IF d = "0" THEN 0 ELSE IF d = "1" THEN 1 ELSE 2

RECURSIVE Decimal(_)
Decimal(str) ==
    IF str = <<>> THEN 0
    ELSE 10 * Decimal(SubSeq(str, 1, Len(str) - 1)) + DigitValue(str[Len(str)])

Ok(x) == <<"Ok", x>>

Err == <<"Err">>

\* T::from_str for an unsigned integer T: one or more decimal digits
FromStr(str) ==
    IF str # <<>> /\ \A k \in 1..Len(str) : str[k] \in Digits
    THEN Ok(Decimal(str))
    ELSE Err

Panic == <<"panic">>

\* the byte index after the separator's match
RightStart(index, sep) == index + 1

ParsePair(str, sep) ==
    LET found == Find(str, sep)
    IN  IF found = None THEN None
        ELSE LET index == found[2]
                 from == RightStart(index, sep)
             IN  IF ~SliceOk(str, 0, index) \/ ~SliceOk(str, from, Len(str))
                 THEN Panic
                 ELSE LET l == FromStr(Slice(str, 0, index))
                          r == FromStr(Slice(str, from, Len(str)))
                      IN  IF l # Err /\ r # Err
                          THEN Some(<<l[2], r[2]>>)
                          ELSE None

ParseComplex(str) ==
    LET pair == ParsePair(str, <<",">>)
    IN  IF pair = Panic THEN Panic
        ELSE IF pair = None THEN None
        ELSE Some(Complex(pair[2][1], pair[2][2]))

-----------------------------------------------------------------------------
(* main: partition of the pixel buffer *)

\* faulty variant: the quotient alone, one row when it is zero
RowsPerBandFloor(height, nthreads) ==
    IF height \div nthreads = 0 THEN 1 ELSE height \div nthreads

\* bounds.1 / (threads as usize) + 1
RowsPerBand(height, nthreads) == height \div nthreads + 1

Min(a, b) == IF a < b THEN a ELSE b

\* faulty variant: the shorter last chunk is dropped, as chunks_exact_mut does
ChunkCountExact(len, chunk_size) == len \div chunk_size

\* faulty variant: a trailing chunk even when no element is left for it
ChunkCountTrailing(len, chunk_size) == len \div chunk_size + 1

\* the number of chunks slice::chunks_mut(chunk_size) yields for len elements
ChunkCount(len, chunk_size) == (len + chunk_size - 1) \div chunk_size

\* the k-th chunk (0-based) as the range of indices it borrows
Chunk(len, chunk_size, k) ==
    [start |-> k * chunk_size, len |-> Min(chunk_size, len - k * chunk_size)]

\* pixels.chunks_mut(chunk_size).collect()
ChunksMut(len, chunk_size) ==
    [k \in 1..ChunkCount(len, chunk_size) |-> Chunk(len, chunk_size, k - 1)]

-----------------------------------------------------------------------------
(* render *)

Black == 0

White == 255

\* faulty variant: the two arms of the match exchanged
ShadeExchanged(membership) == IF membership = None THEN White ELSE Black

\* match belongs_to_mandelbrot_set(point, limit) { None => 0, Some(_) => 255 }
Shade(membership) == IF membership = None THEN Black ELSE White

\* faulty variant: the column is left out of the index
PixelIndexRowOnly(row, column, width) == row * width

\* row * bounds.0 + column
PixelIndex(row, column, width) == row * width + column

\* the byte render stores for (column, row) of a band
RenderByte(lim, bnds, pix, ul, lr) ==
    Shade(BelongsToMandelbrotSet(PixelToPoint(bnds, pix, ul, lr), lim))

-----------------------------------------------------------------------------
(* State *)

VARIABLES
    args,           \* main: std::env::args().collect()
    threads, limit, bounds, upper_left, lower_right,    \* main: the parsed arguments
    status,         \* how the process stands: running, exited or panicked
    pixels,         \* main: the pixel buffer, indexed from 0
    bands,          \* main: the chunks of pixels, in order
    workers,        \* the spawned threads, one per band, in spawn order
    pc,             \* main: where it stands
    written,        \* for each index of pixels, the threads that stored to it
    output,         \* the image file
    s, separator, parsed,       \* parse_pair / parse_complex: arguments and result
    c, z, i, escape,            \* belongs_to_mandelbrot_set: argument, locals, result
    pixel, point                \* pixel_to_point: argument and result

config == <<args, threads, limit, bounds, upper_left, lower_right>>

mainVars == <<config, status, pixels, bands, workers, pc, written, output>>

parseVars == <<s, separator, parsed>>

evalVars == <<c, z, i, escape>>

mapVars == <<pixel, point>>

vars == <<mainVars, parseVars, evalVars, mapVars>>

Unused == "unused"

\* the file system before File::create
NoFile == [created |-> FALSE, pixels |-> <<>>, bounds |-> <<>>]

ParseIdle == s = Unused /\ separator = Unused /\ parsed = Unused

EvalIdle == c = Unused /\ z = Unused /\ i = Unused /\ escape = Unused

MapIdle == pixel = Unused /\ point = Unused

\* the process is running
Running == <<"running">>

\* faulty variant: the exit code of success
ExitedSuccess(code) == <<"exit", 0>>

\* the process has ended with this exit code
Exited(code) == <<"exit", code>>

\* the main thread has panicked with this message
Panicked(message) == <<"panic", message>>

ConfigIdle ==
    /\ args = Unused
    /\ threads = Unused /\ limit = Unused /\ bounds = Unused
    /\ upper_left = Unused /\ lower_right = Unused

MainIdle ==
    /\ status = Unused
    /\ pixels = Unused /\ bands = Unused /\ workers = Unused
    /\ pc = Unused /\ written = Unused /\ output = Unused

-----------------------------------------------------------------------------
(* main, from the parsed arguments to write_image *)

MaxThreads == 3
MaxLimit == 2
MaxWidth == 2
MaxHeight == 3

\* coordinates of the corners of the plane region
CornerCoords == {Fin(-One), Fin(One \div 2), Fin(One)}

Corners == {Complex(re, im) : re \in CornerCoords, im \in CornerCoords}

Width == bounds[1]

Height == bounds[2]

InitMain ==
    /\ args = Unused
    /\ status = Running
    /\ threads \in 1..MaxThreads
    /\ limit \in 0..MaxLimit
    /\ bounds \in (1..MaxWidth) \X (1..MaxHeight)
    /\ upper_left \in Corners
    /\ lower_right \in Corners
    /\ pixels = <<>>
    /\ bands = <<>>
    /\ workers = <<>>
    /\ written = <<>>
    /\ pc = "alloc"
    /\ output = NoFile

Init == InitMain /\ ParseIdle /\ EvalIdle /\ MapIdle

\* let mut pixels = vec![0; ..]; let rows_per_band = ..; let bands = pixels.chunks_mut(..).collect()
Partition ==
    /\ pc = "alloc"
    /\ pixels' = [k \in 0..(Width * Height - 1) |-> 0]
    /\ written' = [k \in 0..(Width * Height - 1) |-> {}]
    /\ IF threads = 0
       THEN \* bounds.1 / 0
            /\ status' = Panicked("attempt to divide by zero")
            /\ pc' = "panicked"
            /\ UNCHANGED bands
       ELSE IF RowsPerBand(Height, threads) * Width = 0
       THEN \* chunks_mut(0)
            /\ status' = Panicked("chunk size must be non-zero")
            /\ pc' = "panicked"
            /\ UNCHANGED bands
       ELSE /\ bands' = ChunksMut(Width * Height, RowsPerBand(Height, threads) * Width)
            /\ pc' = "scope"
            /\ UNCHANGED status
    /\ UNCHANGED <<config, workers, output, parseVars, evalVars, mapVars>>

\* faulty variant: every band is taken to have rows_per_band rows
SpawnedWorkerFullBand(n, band) ==
    LET top == RowsPerBand(Height, threads) * n
        height == RowsPerBand(Height, threads)
    IN  [pc |-> "start",
         top |-> top,
         bounds |-> <<Width, height>>,
         upper_left |-> PixelToPoint(bounds, <<0, top>>, upper_left, lower_right),
         lower_right |-> PixelToPoint(bounds, <<Width, top + height>>, upper_left, lower_right),
         row |-> 0,
         column |-> 0]

\* the thread the i-th iteration (0-based) of the spawn loop creates for band
SpawnedWorker(n, band) ==
    LET top == RowsPerBand(Height, threads) * n
        height == band.len \div Width
    IN  [pc |-> "start",
         top |-> top,
         bounds |-> <<Width, height>>,
         upper_left |-> PixelToPoint(bounds, <<0, top>>, upper_left, lower_right),
         lower_right |-> PixelToPoint(bounds, <<Width, top + height>>, upper_left, lower_right),
         row |-> 0,
         column |-> 0]

\* one iteration of: for (i, band) in bands.into_iter().enumerate() { .. spawner.spawn(..) }
Spawn ==
    /\ pc = "scope"
    /\ Len(workers) < Len(bands)
    /\ workers' = Append(workers, SpawnedWorker(Len(workers), bands[Len(workers) + 1]))
    /\ UNCHANGED <<config, status, pixels, bands, pc, written, output, parseVars, evalVars, mapVars>>

\* render: assert_eq!(pixels.len(), bounds.0 * bounds.1), then the loops are entered
RenderStart(w) ==
    /\ w \in 1..Len(workers)
    /\ workers[w].pc = "start"
    /\ LET me == workers[w]
       IN  workers' = [workers EXCEPT ![w].pc =
                IF bands[w].len # me.bounds[1] * me.bounds[2] THEN "panicked"
                ELSE IF me.bounds[2] = 0 \/ me.bounds[1] = 0 THEN "done"
                ELSE "loop"]
    /\ UNCHANGED <<config, status, pixels, bands, pc, written, output, parseVars, evalVars, mapVars>>

\* faulty variant: the row is never advanced
RenderPixelSameRow(w, byte) ==
    /\ w \in 1..Len(workers)
    /\ workers[w].pc = "loop"
    /\ LET me == workers[w]
           at == PixelIndex(me.row, me.column, me.bounds[1])
           last_column == me.column + 1 = me.bounds[1]
           last_row == me.row + 1 = me.bounds[2]
       IN  /\ pixels' = [pixels EXCEPT ![bands[w].start + at] = byte]
           /\ written' = [written EXCEPT ![bands[w].start + at] = @ \cup {w}]
           /\ workers' = [workers EXCEPT
                   ![w].column = IF last_column THEN 0 ELSE @ + 1,
                   ![w].pc = IF last_column /\ last_row THEN "done" ELSE "loop"]
    /\ UNCHANGED <<config, status, bands, pc, output, parseVars, evalVars, mapVars>>

\* render: the store of byte at (row, column), and the step to the next (row, column)
RenderPixelWith(w, byte) ==
    /\ w \in 1..Len(workers)
    /\ workers[w].pc = "loop"
    /\ LET me == workers[w]
           at == PixelIndex(me.row, me.column, me.bounds[1])
           last_column == me.column + 1 = me.bounds[1]
           last_row == me.row + 1 = me.bounds[2]
       IN  IF at >= bands[w].len
           THEN /\ workers' = [workers EXCEPT ![w].pc = "panicked"]
                /\ UNCHANGED <<pixels, written>>
           ELSE /\ pixels' = [pixels EXCEPT ![bands[w].start + at] = byte]
                /\ written' = [written EXCEPT ![bands[w].start + at] = @ \cup {w}]
                /\ workers' = [workers EXCEPT
                        ![w].column = IF last_column THEN 0 ELSE @ + 1,
                        ![w].row = IF last_column THEN @ + 1 ELSE @,
                        ![w].pc = IF last_column /\ last_row THEN "done" ELSE "loop"]
    /\ UNCHANGED <<config, status, bands, pc, output, parseVars, evalVars, mapVars>>

\* render: one pass of the inner loop body, and the step to the next (row, column)
RenderPixel(w) ==
    RenderPixelWith(w, RenderByte(limit, workers[w].bounds,
                                  <<workers[w].column, workers[w].row>>,
                                  workers[w].upper_left, workers[w].lower_right))

Terminated(w) == workers[w].pc \in {"done", "panicked"}

\* faulty variant: the scope does not join its threads
ScopeNoJoin ==
    /\ pc = "scope"
    /\ Len(workers) = Len(bands)
    /\ pc' = "write"
    /\ UNCHANGED <<config, status, pixels, bands, workers, written, output, parseVars, evalVars, mapVars>>

\* faulty variant: the scope's result is dropped instead of .expect(..)
ScopeJoinIgnoringPanic ==
    /\ pc = "scope"
    /\ Len(workers) = Len(bands)
    /\ \A w \in 1..Len(workers) : Terminated(w)
    /\ pc' = "write"
    /\ UNCHANGED <<config, status, pixels, bands, workers, written, output, parseVars, evalVars, mapVars>>

\* crossbeam::scope(..) joins every spawned thread; .expect(..) panics if one panicked
ScopeJoin ==
    /\ pc = "scope"
    /\ Len(workers) = Len(bands)
    /\ \A w \in 1..Len(workers) : Terminated(w)
    /\ IF \E w \in 1..Len(workers) : workers[w].pc = "panicked"
       THEN pc' = "panicked" /\ status' = Panicked("crossbeam::scope panic")
       ELSE pc' = "write" /\ UNCHANGED status
    /\ UNCHANGED <<config, pixels, bands, workers, written, output, parseVars, evalVars, mapVars>>

\* write_image(&filename, &pixels, bounds)
WriteImage ==
    /\ pc = "write"
    /\ output' = [created |-> TRUE, pixels |-> pixels, bounds |-> bounds]
    /\ pc' = "done"
    /\ UNCHANGED <<config, status, pixels, bands, workers, written, parseVars, evalVars, mapVars>>

Next ==
    \/ Partition
    \/ Spawn
    \/ \E w \in 1..Len(workers) : RenderStart(w)
    \/ \E w \in 1..Len(workers) : RenderPixel(w)
    \/ ScopeJoin
    \/ WriteImage

Spec == Init /\ [][Next]_vars

-----------------------------------------------------------------------------
(* main with a thread that panics *)

\* a spawned thread unwinds: its closure panics before it has finished the band
WorkerPanic(w) ==
    /\ w \in 1..Len(workers)
    /\ workers[w].pc \in {"start", "loop"}
    /\ workers' = [workers EXCEPT ![w].pc = "panicked"]
    /\ UNCHANGED <<config, status, pixels, bands, pc, written, output, parseVars, evalVars, mapVars>>

NextPanic ==
    \/ Next
    \/ \E w \in 1..Len(workers) : WorkerPanic(w)

SpecPanic == Init /\ [][NextPanic]_vars

-----------------------------------------------------------------------------
(* main up to the end of the spawn loop, for the partition alone *)

MaxPartThreads == 6
MaxPartWidth == 2
MaxPartHeight == 6

InitPartition ==
    /\ args = Unused
    /\ status = Running
    /\ threads \in 1..MaxPartThreads
    /\ limit = 0
    /\ bounds \in (1..MaxPartWidth) \X (1..MaxPartHeight)
    /\ upper_left = Complex(Fin(-One), Fin(One))
    /\ lower_right = Complex(Fin(One), Fin(-One))
    /\ pixels = <<>>
    /\ bands = <<>>
    /\ workers = <<>>
    /\ written = <<>>
    /\ pc = "alloc"
    /\ output = NoFile
    /\ ParseIdle /\ EvalIdle /\ MapIdle

NextPartition == Partition \/ Spawn

SpecPartition == InitPartition /\ [][NextPartition]_vars

-----------------------------------------------------------------------------
(* parse_pair and parse_complex on every short text and separator *)

Pending == <<"pending">>

InitParse ==
    /\ s \in StrsOf(MaxStrChars)
    /\ separator \in StrsOf(MaxSepChars)
    /\ parsed = Pending
    /\ ConfigIdle /\ MainIdle /\ EvalIdle /\ MapIdle

\* parse_pair::<usize>(s, separator)
CallParsePair ==
    /\ parsed = Pending
    /\ parsed' = <<"parse_pair", ParsePair(s, separator)>>
    /\ UNCHANGED <<s, separator, mainVars, evalVars, mapVars>>

\* parse_complex::<usize>(s)
CallParseComplex ==
    /\ parsed = Pending
    /\ parsed' = <<"parse_complex", ParseComplex(s)>>
    /\ UNCHANGED <<s, separator, mainVars, evalVars, mapVars>>

NextParse == CallParsePair \/ CallParseComplex

SpecParse == InitParse /\ [][NextParse]_vars

-----------------------------------------------------------------------------
(* belongs_to_mandelbrot_set, one loop iteration at a time *)

MaxEvalLimit == 3

InitEval ==
    /\ c \in {Complex(re, im) : re \in Floats, im \in Floats}
    /\ limit \in 0..MaxEvalLimit
    /\ z = ZeroZ
    /\ i = 0
    /\ escape = Pending
    /\ args = Unused
    /\ threads = Unused /\ bounds = Unused /\ upper_left = Unused /\ lower_right = Unused
    /\ MainIdle /\ ParseIdle /\ MapIdle

\* one pass of the body of: for i in 0..limit
EvalIterate ==
    /\ escape = Pending
    /\ i < limit
    /\ z' = ZNext(z, c)
    /\ IF Escaped(z')
       THEN escape' = <<"returned", Some(i)>> /\ i' = i
       ELSE escape' = escape /\ i' = i + 1
    /\ UNCHANGED <<c, config, status, pixels, bands, workers, pc, written, output, parseVars, mapVars>>

\* the loop is exhausted: None
EvalExhausted ==
    /\ escape = Pending
    /\ i >= limit
    /\ escape' = <<"returned", None>>
    /\ UNCHANGED <<c, z, i, mainVars, parseVars, mapVars>>

NextEval == EvalIterate \/ EvalExhausted

SpecEval == InitEval /\ [][NextEval]_vars

-----------------------------------------------------------------------------
(* pixel_to_point on small bounds and corner coordinates of every kind *)

MaxMapWidth == 2
MaxMapHeight == 2

\* the largest and smallest magnitudes, values whose difference is not a float,
\* an infinity and NaN
MapCoords == {Fin(-MaxFinite), Fin(-2 * One), Fin(1), Fin(One), Fin(MaxFinite), Inf(1), NaN}

InitMap ==
    /\ bounds \in (1..MaxMapWidth) \X (1..MaxMapHeight)
    /\ pixel \in (0..MaxMapWidth) \X (0..MaxMapHeight)
    /\ pixel[1] <= bounds[1] /\ pixel[2] <= bounds[2]
    /\ upper_left \in {Complex(re, im) : re \in MapCoords, im \in MapCoords}
    /\ lower_right \in {Complex(re, im) : re \in MapCoords, im \in MapCoords}
    /\ point = Pending
    /\ args = Unused /\ threads = Unused /\ limit = Unused
    /\ MainIdle /\ ParseIdle /\ EvalIdle

\* pixel_to_point(bounds, pixel, upper_left, lower_right)
CallPixelToPoint ==
    /\ point = Pending
    /\ point' = <<"returned", PixelToPoint(bounds, pixel, upper_left, lower_right)>>
    /\ UNCHANGED <<pixel, mainVars, parseVars, evalVars>>

NextMap == CallPixelToPoint

SpecMap == InitMap /\ [][NextMap]_vars

-----------------------------------------------------------------------------
(* Properties of the partition and of the dispatch *)

AllSpawned == pc # "alloc" /\ Len(workers) = Len(bands)

\* the spawned bands whose row range [top, top + height) holds row
BandsOfRow(row) ==
    {w \in 1..Len(workers) :
        workers[w].top <= row /\ row < workers[w].top + workers[w].bounds[2]}

\* C1: once every band is dispatched, each row of [0, H) lies in the row range
\* [top, top + height) of exactly one band, and no band reaches past row H; while
\* bands are still being dispatched no row lies in two of them.
C1_PartitionCoverage ==
    pc # "alloc" =>
        /\ \A row \in 0..(Height - 1) : Cardinality(BandsOfRow(row)) <= 1
        /\ \A w \in 1..Len(workers) : workers[w].top + workers[w].bounds[2] <= Height
        /\ AllSpawned => \A row \in 0..(Height - 1) : Cardinality(BandsOfRow(row)) = 1

\* a partition into several bands whose last band is shorter than the others
C1_Witness ==
    /\ AllSpawned
    /\ Len(workers) >= 3
    /\ workers[Len(workers)].bounds[2] < workers[1].bounds[2]
    /\ threads < Height

\* the indices of pixels that band w borrows
IndicesOf(w) == bands[w].start..(bands[w].start + bands[w].len - 1)

AllDone == AllSpawned /\ \A w \in 1..Len(workers) : workers[w].pc = "done"

\* C2: every index of the buffer has been stored to by at most one thread, and only
\* by the thread whose band holds it; once all threads are done, by exactly one.
C2_ExclusiveWrites ==
    pc # "alloc" =>
        /\ \A k \in DOMAIN written :
                /\ Cardinality(written[k]) <= 1
                /\ \A w \in written[k] : k \in IndicesOf(w)
        /\ AllDone => \A k \in DOMAIN written : Cardinality(written[k]) = 1

\* two threads have both stored to the buffer while neither is done
C2_Witness ==
    /\ pc = "scope"
    /\ \E v, w \in 1..Len(workers) :
            /\ v # w
            /\ workers[v].pc = "loop" /\ workers[w].pc = "loop"
            /\ \E k \in IndicesOf(v) : written[k] = {v}
            /\ \E k \in IndicesOf(w) : written[k] = {w}

\* C3: when write_image has read the buffer, every dispatched thread had finished
\* and every pixel had been stored by the thread owning it; what it read is the
\* finished buffer. write_image is not reached while a thread is still running.
C3_JoinBeforeWrite ==
    /\ pc \in {"write", "done"} => AllDone
    /\ output.created =>
            /\ AllDone
            /\ \A k \in DOMAIN written : \E w \in 1..Len(workers) :
                    written[k] = {w} /\ k \in IndicesOf(w)
            /\ output.pixels = pixels

\* the image of a buffer that several threads filled has been written
C3_Witness ==
    /\ output.created
    /\ Len(workers) >= 2
    /\ \E k \in DOMAIN pixels : pixels[k] = White

\* the buffer render(limit, pixels, bounds, upper_left, lower_right) leaves: the
\* whole image as a single band
SingleBand ==
    [k \in 0..(Width * Height - 1) |->
        RenderByte(limit, bounds, <<k % Width, k \div Width>>, upper_left, lower_right)]

\* C4: the buffer handed to write_image is the buffer that rendering the whole
\* image as a single band produces, whatever the worker count and interleaving.
C4_SameAsSingleBand == output.created => output.pixels = SingleBand

\* C5: once a band's thread has panicked, main never reaches write_image: it is not
\* at or past the call, and no image file exists.
C5_PanicLeavesNoImage ==
    (pc # "alloc" /\ \E w \in 1..Len(workers) : workers[w].pc = "panicked") =>
        /\ pc \in {"scope", "panicked"}
        /\ ~output.created

\* main has aborted after the join: one thread panicked, another finished its band
C5_Witness ==
    /\ pc = "panicked"
    /\ \E v, w \in 1..Len(workers) :
            workers[v].pc = "panicked" /\ workers[w].pc = "done"

\* C8: when render has returned on a band of bounds (width, height), the byte at
\* row * width + column of the band is 0 if the evaluator finds the mapped point of
\* (column, row) bounded after limit iterations and 255 otherwise, and this thread
\* stored it.
C8_BandRendered ==
    pc # "alloc" =>
        \A w \in 1..Len(workers) : workers[w].pc = "done" =>
            \A row \in 0..(workers[w].bounds[2] - 1), col \in 0..(workers[w].bounds[1] - 1) :
                LET k == bands[w].start + row * workers[w].bounds[1] + col
                    pt == PixelToPoint(workers[w].bounds, <<col, row>>,
                                       workers[w].upper_left, workers[w].lower_right)
                IN  /\ written[k] = {w}
                    /\ pixels[k] = IF BelongsToMandelbrotSet(pt, limit) = None THEN 0 ELSE 255

\* a band of two rows and two columns is rendered and holds both shades
C8_Witness ==
    /\ pc # "alloc"
    /\ \E w \in 1..Len(workers) :
            /\ workers[w].pc = "done"
            /\ workers[w].bounds[1] >= 2 /\ workers[w].bounds[2] >= 2
            /\ \E j, k \in IndicesOf(w) : pixels[j] = Black /\ pixels[k] = White

-----------------------------------------------------------------------------
(* Properties of the parsers *)

\* C6: parse_pair and parse_complex return a value or None and never panic.
C6_ParsersTotal == parsed # Pending => parsed[2] # Panic

Occurs(str, sep) == \E idx \in 0..Len(str) : MatchesAt(str, sep, idx)

FirstOccurrence(str, sep) ==
    CHOOSE idx \in 0..Len(str) :
        MatchesAt(str, sep, idx) /\ \A j \in 0..(idx - 1) : ~MatchesAt(str, sep, j)

\* the text before the first occurrence of sep, and the text after that occurrence
TextBefore(str, sep) == SubSeq(str, 1, FirstOccurrence(str, sep))

TextAfter(str, sep) == SubSeq(str, FirstOccurrence(str, sep) + Len(sep) + 1, Len(str))

\* C7: what parse_pair(s, sep) returns is Some((l, r)) exactly when sep occurs in
\* s, the text before its first occurrence parses to l and the text after that
\* occurrence parses to r; it is None otherwise.
C7_SplitsAtFirstOccurrence ==
    (parsed # Pending /\ parsed[1] = "parse_pair" /\ parsed[2] # Panic) =>
        parsed[2] =
            IF /\ Occurs(s, separator)
               /\ FromStr(TextBefore(s, separator)) # Err
               /\ FromStr(TextAfter(s, separator)) # Err
            THEN Some(<<FromStr(TextBefore(s, separator))[2],
                        FromStr(TextAfter(s, separator))[2]>>)
            ELSE None

-----------------------------------------------------------------------------
(* Properties of the escape-time loop *)

\* z after n updates z <- z * z + c from z = 0
RECURSIVE Orbit(_, _)
Orbit(cc, n) == IF n = 0 THEN ZeroZ ELSE ZNext(Orbit(cc, n - 1), cc)

\* |z|^2 > 4 after the n-th update
EscapesAfter(cc, n) == FGt(NormSqr(Orbit(cc, n)), Fin(4 * One))

\* C9: the loop returns Some(n) exactly when n < limit is the least 0-based index
\* with |z|^2 > 4 after update n + 1, and None when there is none; limit = 0 gives
\* None, c = 0 gives None, and c = 3 gives Some(0) whenever limit >= 1.
C9_EscapeTime ==
    escape # Pending =>
        LET result == escape[2]
        IN  /\ result \in {None} \cup {Some(n) : n \in 0..(limit - 1)}
            /\ \A n \in 0..(limit - 1) :
                    result = Some(n) <=>
                        /\ EscapesAfter(c, n + 1)
                        /\ \A j \in 0..(n - 1) : ~EscapesAfter(c, j + 1)
            /\ result = None <=> \A n \in 0..(limit - 1) : ~EscapesAfter(c, n + 1)
            /\ limit = 0 => result = None
            /\ c = ZeroZ => result = None
            /\ (c = Complex(Fin(3 * One), Fin(0)) /\ limit >= 1) => result = Some(0)
            /\ result = BelongsToMandelbrotSet(c, limit)

\* the loop has returned an escape found at its third iteration
C9_Witness == escape # Pending /\ escape[2] = Some(2) /\ limit > 2

-----------------------------------------------------------------------------
(* Properties of the mapper *)

Returned == point # Pending

\* the corners are finite
FiniteRegion ==
    /\ upper_left.re.k = "fin" /\ upper_left.im.k = "fin"
    /\ lower_right.re.k = "fin" /\ lower_right.im.k = "fin"

\* the plane width and the plane height are computed without rounding
ExactRegion ==
    /\ FiniteRegion
    /\ FSub(lower_right.re, upper_left.re) = Fin(lower_right.re.v - upper_left.re.v)
    /\ FSub(upper_left.im, lower_right.im) = Fin(upper_left.im.v - lower_right.im.v)

\* C10 as stated: for all bounds and all corners, pixel (0, 0) maps to upper_left
\* exactly and pixel (width, height) maps to lower_right exactly.
C10_Endpoints ==
    Returned =>
        /\ pixel = <<0, 0>> => CEq(point[2], upper_left)
        /\ pixel = bounds => CEq(point[2], lower_right)

\* the corners are finite and so are the plane width and the plane height
FiniteExtent ==
    /\ FiniteRegion
    /\ FSub(lower_right.re, upper_left.re).k = "fin"
    /\ FSub(upper_left.im, lower_right.im).k = "fin"

\* C10 amended: for finite corners, pixel (0, 0) maps to upper_left exactly when
\* the plane width and height are finite, and pixel (width, height) maps to
\* lower_right exactly when the plane width and height are computed without
\* rounding.
C10_EndpointsExactRegion ==
    Returned =>
        /\ (FiniteExtent /\ pixel = <<0, 0>>) => CEq(point[2], upper_left)
        /\ (ExactRegion /\ pixel = bounds) => CEq(point[2], lower_right)

\* pixel (width, height) of a region with four different corner coordinates, whose
\* width and height are exact, has been mapped
C10_Witness ==
    /\ Returned /\ ExactRegion
    /\ pixel = bounds /\ bounds[1] >= 2
    /\ upper_left.re # lower_right.re /\ upper_left.im # lower_right.im
    /\ upper_left.re # upper_left.im

-----------------------------------------------------------------------------
(* pixel_to_point on the pixels of a grid, for regions of either orientation *)

MaxGridWidth == 4
MaxGridHeight == 4

GridCoords == {Fin(-One), Fin(0), Fin(One)}

InitGrid ==
    /\ bounds \in (1..MaxGridWidth) \X (1..MaxGridHeight)
    /\ pixel \in {<<column, row>> : column \in 0..MaxGridWidth, row \in 0..MaxGridHeight}
    /\ pixel[1] <= bounds[1] /\ pixel[2] <= bounds[2]
    /\ upper_left \in {Complex(re, im) : re \in GridCoords, im \in GridCoords}
    /\ lower_right \in {Complex(re, im) : re \in GridCoords, im \in GridCoords}
    /\ point = Pending
    /\ args = Unused /\ threads = Unused /\ limit = Unused
    /\ MainIdle /\ ParseIdle /\ EvalIdle

SpecGrid == InitGrid /\ [][NextMap]_vars

\* n / d in f64, for pixel counts n and d
Ratio(n, d) == FDiv(UsizeAsF64(n), UsizeAsF64(d))

\* the point the interpolation formula gives for (column, row)
Interpolated(column, row) ==
    Complex(FAdd(upper_left.re,
                 FMul(Ratio(column, bounds[1]), FSub(lower_right.re, upper_left.re))),
            FSub(upper_left.im,
                 FMul(Ratio(row, bounds[2]), FSub(upper_left.im, lower_right.im))))

\* the imaginary part pixel_to_point gives for a row of the pixel's column
ImOfRow(row) == PixelToPoint(bounds, <<pixel[1], row>>, upper_left, lower_right).im

\* bounds (4, 4), pixel (1, 3), corners (-1, 1) and (1, -1): the ratios 25/100 and
\* 75/100 of bounds (100, 100), pixel (25, 75)
QuarterExample ==
    /\ bounds = <<4, 4>> /\ pixel = <<1, 3>>
    /\ upper_left = Complex(Fin(-One), Fin(One))
    /\ lower_right = Complex(Fin(One), Fin(-One))

\* C11 as stated: the mapper returns the linear interpolation between the
\* corners, re = upper_left.re + (column / width) * (lower_right.re - upper_left.re)
\* and im = upper_left.im - (row / height) * (upper_left.im - lower_right.im), so
\* the imaginary part at a row is never above the one at the row before it (let
\* alone strictly below it); the pixel a quarter across and three quarters down
\* the region (-1, 1)..(1, -1) maps to (-0.5, -0.5).
C11_Interpolation ==
    Returned =>
        /\ point[2] = Interpolated(pixel[1], pixel[2])
        /\ pixel[2] >= 1 => ~FGt(point[2].im, ImOfRow(pixel[2] - 1))
        /\ QuarterExample => point[2] = Complex(Fin(-(One \div 2)), Fin(-(One \div 2)))

\* C11 amended: the mapper returns the linear interpolation between the corners,
\* as C11 gives it; as the row grows the imaginary part does not increase when
\* upper_left.im >= lower_right.im, and does not decrease when
\* upper_left.im <= lower_right.im; the pixel a quarter across and three
\* quarters down the region (-1, 1)..(1, -1) maps to (-0.5, -0.5).
C11_InterpolationOriented ==
    Returned =>
        /\ point[2] = Interpolated(pixel[1], pixel[2])
        /\ (pixel[2] >= 1 /\ ~FGt(lower_right.im, upper_left.im))
               => ~FGt(point[2].im, ImOfRow(pixel[2] - 1))
        /\ (pixel[2] >= 1 /\ ~FGt(upper_left.im, lower_right.im))
               => ~FGt(ImOfRow(pixel[2] - 1), point[2].im)
        /\ QuarterExample => point[2] = Complex(Fin(-(One \div 2)), Fin(-(One \div 2)))

\* the pixel a quarter across and three quarters down (-1, 1)..(1, -1) has been
\* mapped, to a point below the one of the row before it
C11_Witness ==
    /\ Returned /\ QuarterExample
    /\ FGt(ImOfRow(pixel[2] - 1), point[2].im)

-----------------------------------------------------------------------------
(* the partition: number and size of the bands *)

\* C12: for height >= 1 and threads >= 1, pixels.chunks_mut(rows_per_band * width)
\* with rows_per_band = height / threads + 1 yields at most threads bands, and no
\* more threads than that are spawned.
C12_BandCount ==
    /\ Len(bands) <= threads
    /\ Len(workers) <= Len(bands)
    /\ pc = "scope" =>
           /\ Len(bands) * RowsPerBand(Height, threads) >= Height
           /\ (Len(bands) - 1) * RowsPerBand(Height, threads) < Height

\* every band of a partition with as many bands as threads, more than one, is dispatched
C12_Witness ==
    /\ AllSpawned
    /\ threads >= 2
    /\ Len(workers) = threads

\* the rows of the last dispatched band
LastBandRows == workers[Len(workers)].bounds[2]

\* C13 as stated: there are a height >= 1 and a thread count above it for which
\* the last band the partition yields has zero rows (looked for, once a partition
\* has been dispatched, among all heights, thread counts and widths within the
\* bounds).
C13_EmptyFinalBand ==
    AllSpawned =>
        \E height \in 1..MaxPartHeight, nthreads \in 1..MaxPartThreads, width \in 1..MaxPartWidth :
            /\ nthreads > height
            /\ LET chunks == ChunksMut(width * height, RowsPerBand(height, nthreads) * width)
               IN  chunks[Len(chunks)].len \div width = 0

\* C13 amended: no dispatched band has zero rows; when the thread count exceeds
\* the height the partition yields exactly height bands, of one row each.
C13_NoEmptyBand ==
    /\ \A w \in 1..Len(workers) : workers[w].bounds[2] >= 1
    /\ (pc = "scope" /\ threads > Height) =>
           /\ Len(bands) = Height
           /\ \A b \in 1..Len(bands) : bands[b].len = Width
    /\ (AllSpawned /\ pc = "scope") => LastBandRows >= 1

\* with more threads than rows, more than one row, every band is dispatched
C13_Witness ==
    /\ AllSpawned
    /\ threads > Height
    /\ Height >= 2
    /\ LastBandRows = 1

-----------------------------------------------------------------------------
(* main from the command line *)

\* args[k] of the source; sequences are indexed from 1
Arg(k) == args[k + 1]

ProgramName == <<"x">>

FileTexts == {<<"x">>}

ThreadsTexts == {<<"0">>, <<"1">>, <<"2">>, <<"x">>}

LimitTexts == {<<"2">>, <<>>}

PixelsTexts ==
    {<<"1", "x", "2">>, <<"2", "x", "1">>, <<"0", "x", "1">>, <<"1", "x", "0">>,
     <<"1", ",", "2">>, <<"x", "1">>}

CornerTexts == {<<"0", ",", "1">>, <<"1", ",", "0">>, <<"1", "x", "0">>}

\* the command lines: seven arguments, or one, six or eight
ArgVectors ==
    LET full == {<<ProgramName, file, th, lim, px, ul, lr>> :
                    file \in FileTexts, th \in ThreadsTexts, lim \in LimitTexts,
                    px \in PixelsTexts, ul \in CornerTexts, lr \in CornerTexts}
    IN  full \cup {<<ProgramName>>}
             \cup {SubSeq(a, 1, 6) : a \in full}
             \cup {Append(a, <<"1">>) : a \in full}

\* parse_complex::<f64>: on texts of digits f64::from_str gives the integer, as f64
ParseComplexF64(str) ==
    LET parsed_pair == ParseComplex(str)
    IN  IF parsed_pair = Panic \/ parsed_pair = None THEN parsed_pair
        ELSE Some(Complex(UsizeAsF64(parsed_pair[2].re), UsizeAsF64(parsed_pair[2].im)))

\* the message of the first .expect(..) of lines 21-25 that fails, None when all pass
FirstFailure(a) ==
    IF FromStr(a[3]) = Err THEN Some("expected THREADS: 8")
    ELSE IF FromStr(a[4]) = Err THEN Some("expected LIMIT: 100")
    ELSE IF ParsePair(a[5], <<"x">>) = Panic THEN Some("byte index is not a char boundary")
    ELSE IF ParsePair(a[5], <<"x">>) = None THEN Some("expected PIXELS: 1500x750")
    ELSE IF ParseComplexF64(a[6]) = Panic THEN Some("byte index is not a char boundary")
    ELSE IF ParseComplexF64(a[6]) = None THEN Some("expected UPPER_LEFT: -1.0,1.25")
    ELSE IF ParseComplexF64(a[7]) = Panic THEN Some("byte index is not a char boundary")
    ELSE IF ParseComplexF64(a[7]) = None THEN Some("expected LOWER_RIGHT: 1.0,-1.0")
    ELSE None

InitArgs ==
    /\ args \in ArgVectors
    /\ threads = Unused /\ limit = Unused /\ bounds = Unused
    /\ upper_left = Unused /\ lower_right = Unused
    /\ status = Running
    /\ pixels = <<>>
    /\ bands = <<>>
    /\ workers = <<>>
    /\ written = <<>>
    /\ pc = "args"
    /\ output = NoFile
    /\ ParseIdle /\ EvalIdle /\ MapIdle

\* main, lines 14-25: the argument count, then each field in turn
ParseArguments ==
    /\ pc = "args"
    /\ IF Len(args) # 7
       THEN /\ status' = Exited(1)
            /\ pc' = "exited"
            /\ UNCHANGED <<threads, limit, bounds, upper_left, lower_right>>
       ELSE IF FirstFailure(args) # None
       THEN /\ status' = Panicked(FirstFailure(args)[2])
            /\ pc' = "panicked"
            /\ UNCHANGED <<threads, limit, bounds, upper_left, lower_right>>
       ELSE /\ threads' = FromStr(Arg(2))[2]
            /\ limit' = FromStr(Arg(3))[2]
            /\ bounds' = ParsePair(Arg(4), <<"x">>)[2]
            /\ upper_left' = ParseComplexF64(Arg(5))[2]
            /\ lower_right' = ParseComplexF64(Arg(6))[2]
            /\ pc' = "alloc"
            /\ UNCHANGED status
    /\ UNCHANGED <<args, pixels, bands, workers, written, output, parseVars, evalVars, mapVars>>

NextArgs ==
    \/ ParseArguments
    \/ Next

SpecArgs == InitArgs /\ [][NextArgs]_vars

\* the messages of the five .expect(..) of lines 21-25
ExpectMessages ==
    {"expected THREADS: 8", "expected LIMIT: 100", "expected PIXELS: 1500x750",
     "expected UPPER_LEFT: -1.0,1.25", "expected LOWER_RIGHT: 1.0,-1.0"}

\* a field of a seven-argument command line does not parse
FieldFails ==
    /\ Len(args) = 7
    /\ \/ FromStr(Arg(2)) = Err
       \/ FromStr(Arg(3)) = Err
       \/ ParsePair(Arg(4), <<"x">>) = None
       \/ ParseComplexF64(Arg(5)) = None
       \/ ParseComplexF64(Arg(6)) = None

\* no buffer, no band, no thread, no file
NoEffect ==
    /\ pixels = <<>> /\ written = <<>>
    /\ bands = <<>>
    /\ workers = <<>>
    /\ ~output.created

\* C14: with an argument count other than 7 the process exits with code 1, and
\* with a field that does not parse it panics with one of the expect messages; in
\* both cases main goes no further: the buffer is never allocated, no thread is
\* spawned and the file is never created.
C14_ConfigErrorsTerminal ==
    /\ Len(args) # 7 =>
           /\ pc \in {"args", "exited"}
           /\ pc = "exited" => status = <<"exit", 1>>
           /\ NoEffect
    /\ FieldFails =>
           /\ pc \in {"args", "panicked"}
           /\ pc = "panicked" => status[1] = "panic" /\ status[2] \in ExpectMessages
           /\ NoEffect
    /\ pc = "exited" => Len(args) # 7
    /\ (status[1] = "panic" /\ status[2] \in ExpectMessages) => FieldFails

\* main has panicked on the last field, the four before it having parsed
C14_Witness ==
    /\ pc = "panicked"
    /\ status = Panicked("expected LOWER_RIGHT: 1.0,-1.0")
    /\ NoEffect

\* C15 as stated: a THREADS of 0, and a PIXELS with width 0 or height 0, is
\* rejected with the expect message of its field, so main goes past the parsing
\* only with threads >= 1, width >= 1 and height >= 1, and the partition neither
\* divides by zero nor asks for chunks of size zero.
C15_PositiveFieldsEnforced ==
    /\ (pc # "args" /\ Len(args) = 7 /\ FromStr(Arg(2)) = Ok(0))
           => status = Panicked("expected THREADS: 8")
    /\ (pc \notin {"args", "exited", "panicked"})
           => threads >= 1 /\ bounds[1] >= 1 /\ bounds[2] >= 1
    /\ status # Panicked("attempt to divide by zero")
    /\ status # Panicked("chunk size must be non-zero")

-----------------------------------------------------------------------------
(* the bands as render receives them *)

\* C16: every chunk of the partition holds a whole number of rows, so each
\* spawned render is given a band of exactly bounds.0 * bounds.1 bytes, the
\* shorter last band included, and its assert_eq! never fails.
C16_RenderPrecondition ==
    /\ \A b \in 1..Len(bands) : bands[b].len % Width = 0
    /\ \A w \in 1..Len(workers) :
           /\ bands[w].len = workers[w].bounds[1] * workers[w].bounds[2]
           /\ workers[w].pc # "panicked"
    /\ pc # "panicked"

\* the render of a last band shorter than the first has passed its assertion
C16_Witness ==
    /\ AllSpawned
    /\ Len(bands) >= 2
    /\ bands[Len(bands)].len < bands[1].len
    /\ workers[Len(workers)].pc \in {"loop", "done"}

\* C17: for a band with top t and h rows, and band corners the global mapping of
\* (0, t) and (width, t + h), every local pixel (column, row) with row < h maps
\* against (width, h) and the band corners to the same point as (column, t + row)
\* maps against the global bounds and corners.
C17_BandLocalAgrees ==
    \A w \in 1..Len(workers) :
        LET t == workers[w].top
            h == workers[w].bounds[2]
            band_upper_left == PixelToPoint(bounds, <<0, t>>, upper_left, lower_right)
            band_lower_right == PixelToPoint(bounds, <<Width, t + h>>, upper_left, lower_right)
        IN  /\ workers[w].upper_left = band_upper_left
            /\ workers[w].lower_right = band_lower_right
            /\ \A column \in 0..(Width - 1), row \in 0..(h - 1) :
                   PixelToPoint(<<Width, h>>, <<column, row>>, band_upper_left, band_lower_right)
                       = PixelToPoint(bounds, <<column, t + row>>, upper_left, lower_right)

-----------------------------------------------------------------------------
(* main under fair scheduling of the main thread and of every spawned thread *)

\* the region's upper left corner is fixed; everything else is as in Init
InitFair == Init /\ upper_left = Complex(Fin(-One), Fin(One))

\* the spawn loop has a band left to dispatch: Spawn is enabled
SpawnReady == pc = "scope" /\ Len(workers) < Len(bands)

\* a step of the w-th spawned thread, whatever shade it stores. Under Next the
\* steps of this action are those of RenderStart(w) and RenderPixel(w), and it is
\* enabled when they are, the shade being one of the two.
WorkerStep(w) ==
    \/ RenderStart(w)
    \/ \E byte \in {Black, White} : RenderPixelWith(w, byte)

\* every thread that stays able to take a step eventually takes one. The weak
\* fairness of Spawn is written out with its enabling condition.
Fairness ==
    /\ WF_vars(Partition)
    /\ ([]<>(~SpawnReady) \/ []<><<Spawn>>_vars)
    /\ \A w \in 1..MaxHeight : WF_vars(WorkerStep(w))
    /\ WF_vars(ScopeJoin)
    /\ WF_vars(WriteImage)

SpecFair == InitFair /\ [][Next]_vars /\ Fairness

\* every band is dispatched and every spawned render has returned
AllReturned == AllSpawned /\ \A w \in 1..Len(workers) : workers[w].pc = "done"

\* C18: with threads, width and height positive and any limit, under fair
\* scheduling every spawned render eventually returns and main eventually passes
\* the join and calls write_image; write_image is called once, after which
\* nothing changes the file; and no render waits on another: one that has not
\* returned can always take its next step, whatever the other threads have done.
C18_RenderCompletion ==
    /\ <>[](AllReturned /\ pc = "done" /\ output.created)
    /\ [][output.created => output' = output]_vars
    /\ [][output' # output => (pc = "write" /\ pc' = "done")]_vars
    /\ [](\A w \in 1..Len(workers) :
              workers[w].pc \in {"start", "loop"} => ENABLED WorkerStep(w))

\* an image rendered by more than one thread has been written
C18_Witness ==
    /\ pc = "done"
    /\ output.created
    /\ Len(workers) >= 2
    /\ AllReturned

====
